---- MODULE Spec2Model ----
(***************************************************************************)
(* Model of the Simplify scraper (src/parse_simplify.py): the login loop,  *)
(* the scroll-and-load crawl, the per-offer extraction, the funding        *)
(* normaliser and the insert-with-duplicate-detection into the store.      *)
(*                                                                         *)
(* Python text is modelled as a sequence of one-character strings, so that *)
(* filtering, searching and parsing are computed character by character.   *)
(* Python floats are modelled as IEEE-754 binary64 values: a mantissa of   *)
(* at most 53 bits (most significant bit first) and a binary exponent.     *)
(***************************************************************************)
EXTENDS Integers, Sequences, FiniteSets, TLC

(***************************************************************************)
(* Bounds of the model.                                                    *)
(***************************************************************************)
\* longest listing source (number of job blocks the site holds)
MaxItems == 2
\* number of sequential runs of main() over the same source and store
MaxRuns == 2
\* longest enumerated funding text of the funding normaliser's own check
MaxTextLen == 4
MaxTags == 2
MaxRows == 2

(***************************************************************************)
(* Program constants.                                                      *)
(***************************************************************************)
\* all_job_blocks[start_block_n: start_block_n + 21]
WindowSize == 21
\* r'/([0-9a-fA-F-]{36})/'
IdLen == 36
\* width of the binary64 significand
MantBits == 53

(***************************************************************************)
(* Characters and text                                                     *)
(***************************************************************************)
DigitChars == <<"0", "1", "2", "3", "4", "5", "6", "7", "8", "9">>
Digits == {DigitChars[i] : i \in 1..10}
Upper == {"A", "B", "C", "D", "E", "F", "G", "H", "I", "J", "K", "L", "M",
          "N", "O", "P", "Q", "R", "S", "T", "U", "V", "W", "X", "Y", "Z"}
Lower == {"a", "b", "c", "d", "e", "f", "g", "h", "i", "j", "k", "l", "m",
          "n", "o", "p", "q", "r", "s", "t", "u", "v", "w", "x", "y", "z"}
\* str.isalnum() of one character
IsAlnum(c) == c \in Digits \cup Upper \cup Lower
\* the character class [0-9a-fA-F-]
HexHyphen == Digits \cup {"a", "b", "c", "d", "e", "f"}
                    \cup {"A", "B", "C", "D", "E", "F"} \cup {"-"}

DigitVal(c) == (CHOOSE i \in 1..10 : DigitChars[i] = c) - 1

\* c in s
Contains(s, c) == \E i \in 1..Len(s) : s[i] = c

\* s.replace(c, '')
Remove(s, c) == LET keep(x) == x # c IN SelectSeq(s, keep)

RECURSIVE Pow10(_)
Pow10(k) == IF k = 0 THEN 1 ELSE 10 * Pow10(k - 1)

\* value of a non-empty sequence of decimal digits
RECURSIVE DigitsValue(_)
DigitsValue(ds) ==
  IF ds = <<>> THEN 0
  ELSE 10 * DigitsValue(SubSeq(ds, 1, Len(ds) - 1)) + DigitVal(ds[Len(ds)])

AllDigits(s) == \A i \in 1..Len(s) : s[i] \in Digits

(***************************************************************************)
(* Python values and outcomes: an int, None, or a raised exception.        *)
(***************************************************************************)
PyInt(n) == [kind |-> "int", v |-> n, exc |-> ""]
PyNone == [kind |-> "None", v |-> 0, exc |-> ""]
PyRaise(e) == [kind |-> "raise", v |-> 0, exc |-> e]

\* s.strip(c)
Strip(s, c) ==
  LET idx == {i \in 1..Len(s) : s[i] # c}
  IN IF idx = {} THEN <<>>
     ELSE SubSeq(s, CHOOSE i \in idx : \A j \in idx : i <= j,
                    CHOOSE i \in idx : \A j \in idx : i >= j)

\* int(text) for text over the model's characters: surrounding blanks are
\* stripped, one sign is allowed, then decimal digits; anything else is a
\* ValueError
IntParse(text) ==
  LET s == Strip(text, " ")
      signed == s # <<>> /\ s[1] \in {"+", "-"}
      body == IF signed THEN Tail(s) ELSE s
  IN IF body = <<>> \/ ~AllDigits(body) THEN PyRaise("ValueError")
     ELSE IF signed /\ s[1] = "-" THEN PyInt(0 - DigitsValue(body))
     ELSE PyInt(DigitsValue(body))

(***************************************************************************)
(* binary64 arithmetic                                                     *)
(***************************************************************************)
Pow2(j) == 2 ^ j

\* number of binary digits of a natural number below 2^31
BitLen(n) == Cardinality({j \in 0..30 : Pow2(j) <= n})

\* the w low binary digits of n, most significant first
BitsOfWidth(n, w) == [i \in 1..w |-> (n \div Pow2(w - i)) % 2]

\* binary digits of a natural number, most significant first (<<>> for 0)
BitsOf(n) == BitsOfWidth(n, BitLen(n))

\* the number a sequence of at most 31 binary digits denotes
RECURSIVE BitsVal(_)
BitsVal(b) ==
  IF Len(b) = 0 THEN 0
  ELSE IF Len(b) = 1 THEN b[1]
  ELSE LET h == Len(b) \div 2
       IN BitsVal(SubSeq(b, 1, h)) * Pow2(Len(b) - h)
          + BitsVal(SubSeq(b, h + 1, Len(b)))

\* bits without its leading zeros
TrimZeros(b) ==
  LET ones == {i \in 1..Len(b) : b[i] = 1}
  IN IF ones = {} THEN <<>>
     ELSE SubSeq(b, CHOOSE i \in ones : \A j \in ones : i <= j, Len(b))

\* the next k binary digits of the fraction r/den, and the remainder left
\* (long division, eight digits at a step)
RECURSIVE Expand(_, _, _, _)
Expand(r, den, k, acc) ==
  IF k = 0 THEN [bits |-> acc, rem |-> r]
  ELSE LET c == IF k < 8 THEN k ELSE 8
           t == r * Pow2(c)
       IN Expand(t % den, den, k - c, acc \o BitsOfWidth(t \div den, c))

\* number of zero binary digits before the first one of the fraction r/den
RECURSIVE LeadZeros(_, _)
LeadZeros(r, den) == IF 2 * r >= den THEN 0 ELSE 1 + LeadZeros(2 * r, den)

\* bits + 1
IncBits(b) ==
  LET zeros == {i \in 1..Len(b) : b[i] = 0}
  IN IF zeros = {} THEN <<1>> \o [i \in 1..Len(b) |-> 0]
     ELSE LET p == CHOOSE i \in zeros : \A j \in zeros : i >= j
          IN [i \in 1..Len(b) |-> IF i < p THEN b[i]
                                  ELSE IF i = p THEN 1 ELSE 0]

\* round-to-nearest-even of bits * 2^e (sticky: digits beyond bits are not
\* all zero) to a significand of MantBits bits
RoundNearestEven(bits, sticky, e) ==
  IF Len(bits) <= MantBits THEN [ok |-> TRUE, m |-> bits, e |-> e]
  ELSE LET keep == SubSeq(bits, 1, MantBits)
           half == bits[MantBits + 1] = 1
           rest == sticky \/ \E i \in (MantBits + 2)..Len(bits) : bits[i] = 1
           up == half /\ (rest \/ keep[MantBits] = 1)
           r == IF up THEN IncBits(keep) ELSE keep
           drop == Len(bits) - MantBits
       IN IF Len(r) > MantBits
          THEN [ok |-> TRUE, m |-> SubSeq(r, 1, MantBits), e |-> e + drop + 1]
          ELSE [ok |-> TRUE, m |-> r, e |-> e + drop]

FloatError == [ok |-> FALSE, m |-> <<>>, e |-> 0]

\* the double nearest to n / 10^f
FloatOfDecimal(n, f) ==
  LET den == Pow10(f)
      ip == n \div den
      r0 == n % den
      ib == BitsOf(ip)
  IN IF n = 0 THEN [ok |-> TRUE, m |-> <<>>, e |-> 0]
     ELSE IF ip > 0
     THEN LET need == MantBits + 1 - Len(ib)
              x == Expand(r0, den, need, <<>>)
          IN RoundNearestEven(ib \o x.bits, x.rem # 0, 0 - need)
     ELSE LET z == LeadZeros(r0, den)
              r1 == Expand(r0, den, z, <<>>).rem
              x == Expand(r1, den, MantBits + 1, <<>>)
          IN RoundNearestEven(x.bits, x.rem # 0, 0 - (z + MantBits + 1))

\* a decimal literal over digits and '.', digits with at most one point and
\* at least one digit, read as n / 10^f
DecimalOf(s) ==
  LET dots == {i \in 1..Len(s) : s[i] = "."}
      digs == LET keep(c) == c # "." IN SelectSeq(s, keep)
      f == IF dots = {} THEN 0 ELSE Len(s) - (CHOOSE i \in dots : TRUE)
  IN IF Cardinality(dots) > 1 \/ digs = <<>> \/ ~AllDigits(digs)
     THEN [ok |-> FALSE, n |-> 0, f |-> 0]
     ELSE [ok |-> TRUE, n |-> DigitsValue(digs), f |-> f]

\* float(text) for text over the model's characters: a decimal literal, or
\* a ValueError
FloatParse(s) ==
  LET d == DecimalOf(s)
  IN IF d.ok THEN FloatOfDecimal(d.n, d.f) ELSE FloatError

\* bits as 20-digit limbs, least significant limb first
Limbs(bits) ==
  LET nl == (Len(bits) + 19) \div 20
      pad == [i \in 1..(nl * 20 - Len(bits)) |-> 0] \o bits
  IN [i \in 1..nl |->
        BitsVal(SubSeq(pad, (nl - i) * 20 + 1, (nl - i + 1) * 20))]

\* limbs[i..] * k + carry as bits, for k below 2^10
RECURSIVE MulLimbs(_, _, _, _)
MulLimbs(limbs, i, k, carry) ==
  IF i > Len(limbs) THEN BitsOf(carry)
  ELSE LET t == limbs[i] * k + carry
       IN MulLimbs(limbs, i + 1, k, t \div Pow2(20))
          \o BitsOfWidth(t % Pow2(20), 20)

\* bits * k exactly, as bits, for k below 2^10 or a power of 1000
RECURSIVE MulBits(_, _)
MulBits(bits, k) ==
  IF k < 1024 THEN TrimZeros(MulLimbs(Limbs(bits), 1, k, 0))
  ELSE MulBits(TrimZeros(MulLimbs(Limbs(bits), 1, 1000, 0)), k \div 1000)

\* x * k in binary64, k the exact double of a natural number
FloatMul(x, k) == RoundNearestEven(MulBits(x.m, k), FALSE, x.e)

\* int(x): truncation toward zero
FloatToInt(x) ==
  LET n == Len(x.m) + x.e
  IN IF n <= 0 THEN 0
     ELSE IF x.e >= 0 THEN BitsVal(x.m \o [i \in 1..x.e |-> 0])
     ELSE BitsVal(SubSeq(x.m, 1, n))

(***************************************************************************)
(* extract_funding                                                         *)
(***************************************************************************)
\* funding_factors = {'K': 1e3, 'M': 1e6, 'B': 1e9}, in insertion order
funding_factors ==
  << [suffix |-> "K", multiplier |-> 1000],
     [suffix |-> "M", multiplier |-> 1000000],
     [suffix |-> "B", multiplier |-> 1000000000] >>

\* ''.join(e for e in text if e.isalnum() or e == '.')
CleanFunding(text) ==
  LET keep(c) == IsAlnum(c) \/ c = "." IN SelectSeq(text, keep)

\* int(float(funding.replace(suffix, '')) * multiplier)
ScaleFunding(funding, factor) ==
  LET x == FloatParse(Remove(funding, factor.suffix))
  IN IF ~x.ok THEN PyRaise("ValueError")
     ELSE PyInt(FloatToInt(FloatMul(x, factor.multiplier)))

\* the factors whose suffix occurs in funding, by position in the dict
SuffixHits(funding) ==
  {i \in 1..Len(funding_factors) : Contains(funding, funding_factors[i].suffix)}

\* the first of them: the one the for loop returns on
FirstFactor(funding) ==
  LET hits == SuffixHits(funding)
  IN funding_factors[CHOOSE i \in hits : \A j \in hits : i <= j]

\* the for loop over funding_factors, then the guarded int(funding)
NormalizeFunding(text) ==
  LET funding == CleanFunding(text)
  IN IF SuffixHits(funding) # {}
     THEN ScaleFunding(funding, FirstFactor(funding))
     ELSE LET r == IntParse(funding)
          IN IF r.kind = "raise" THEN PyNone ELSE r

\* extract_funding(inline_offer_block); headings are the texts of the
\* elements selected by 'div.py-5 h1'
extract_funding(headings) ==
  IF headings = <<>> THEN PyNone
  ELSE IF Len(headings) < 2 THEN PyRaise("IndexError")
  ELSE NormalizeFunding(headings[2])

(***************************************************************************)
(* Texts of the listing source                                             *)
(***************************************************************************)
SiteRoot ==
  << "h", "t", "t", "p", "s", ":", "/", "/", "s", "i", "m", "p",
     "l", "i", "f", "y", ".", "j", "o", "b", "s" >>
JobsPath == << "/", "j", "o", "b", "s", "/" >>
OverviewPath == << "/", "o", "v", "e", "r", "v", "i", "e", "w" >>
UuidA ==
  << "3", "f", "a", "8", "5", "f", "6", "4", "-", "5", "7", "1",
     "7", "-", "4", "5", "6", "2", "-", "b", "3", "f", "c", "-",
     "2", "c", "9", "6", "3", "f", "6", "6", "a", "f", "a", "6" >>
UuidB ==
  << "0", "b", "9", "c", "2", "D", "1", "e", "-", "A", "A", "A",
     "A", "-", "4", "b", "b", "b", "-", "8", "c", "c", "c", "-",
     "1", "2", "3", "4", "5", "6", "7", "8", "9", "0", "a", "b" >>
\* 35 characters
ShortToken ==
  << "3", "f", "a", "8", "5", "f", "6", "4", "-", "5", "7", "1",
     "7", "-", "4", "5", "6", "2", "-", "b", "3", "f", "c", "-",
     "2", "c", "9", "6", "3", "f", "6", "6", "a", "f", "a" >>
Bootstrapped ==
  << "B", "o", "o", "t", "s", "t", "r", "a", "p", "p", "e", "d" >>
Funding15M == << "$", "1", ".", "5", "M" >>
Funding500K == << "$", "5", "0", "0", "K" >>
Funding2B == << "$", "2", "B" >>
Plain1000 == << "1", "0", "0", "0" >>
Year2015 == << "2", "0", "1", "5" >>
NotAvailable == << "N", "/", "A" >>
Seed == << "S", "e", "e", "d" >>
\* the Python str 'Intern' (a str, not a list holding one)
InternStr == << "I", "n", "t", "e", "r", "n" >>

\* detail-view URLs the browser reports (driver.current_url)
UrlA == SiteRoot \o JobsPath \o UuidA \o OverviewPath
UrlB == SiteRoot \o JobsPath \o UuidB \o OverviewPath
UrlShort == SiteRoot \o JobsPath \o ShortToken \o OverviewPath

(***************************************************************************)
(* A listing item: the summary block in the list and the detail pane it    *)
(* opens. headings are the texts of 'div.py-5 h1' (the profile block).     *)
(***************************************************************************)
GoodItem ==
  [ url |-> UrlA, position_name |-> "Data Intern",
    badges |-> <<"Intern">>,
    hasSkillBox |-> TRUE, skills |-> <<"Python", "SQL">>,
    hasCatBox |-> TRUE, cats |-> <<"Data">>,
    hasEmployees |-> TRUE, hasWebsite |-> TRUE,
    headings |-> <<Seed, Funding15M, Year2015>> ]

\* the listing items the source may hold, by number
Catalog ==
  << GoodItem,
    \* the same id as GoodItem, other fields differ; no badge, no profile
    [GoodItem EXCEPT !.position_name = "ML Intern", !.badges = <<>>,
                     !.skills = <<"Python">>, !.headings = <<>>],
    \* another id; funding and year texts that are no numbers
    [GoodItem EXCEPT !.url = UrlB, !.badges = <<>>, !.skills = <<>>,
                     !.cats = <<"Data", "Web">>,
                     !.headings = <<Seed, NotAvailable, NotAvailable>>],
    \* no 36-character token in the URL
    [GoodItem EXCEPT !.url = UrlShort],
    \* skill container / category container missing
    [GoodItem EXCEPT !.url = UrlB, !.hasSkillBox = FALSE, !.skills = <<>>],
    [GoodItem EXCEPT !.url = UrlB, !.hasCatBox = FALSE, !.cats = <<>>],
    \* funding text with a suffix letter and no decimal
    [GoodItem EXCEPT !.url = UrlB,
                     !.headings = <<Seed, Bootstrapped, Year2015>>],
    \* a profile block of two headings
    [GoodItem EXCEPT !.url = UrlB, !.headings = <<Seed, Funding500K>>] >>

(***************************************************************************)
(* grab_offer_info: extraction                                             *)
(***************************************************************************)
\* re.search(r'/([0-9a-fA-F-]{36})/', url): <<>> for None, else <<group(1)>>
re_search(url) ==
  LET hits == {i \in 1..(Len(url) - IdLen - 1) :
                 /\ url[i] = "/"
                 /\ \A j \in 1..IdLen : url[i + j] \in HexHyphen
                 /\ url[i + IdLen + 1] = "/"}
  IN IF hits = {} THEN <<>>
     ELSE LET i0 == CHOOSE i \in hits : \A j \in hits : i <= j
          IN <<SubSeq(url, i0 + 1, i0 + IdLen)>>

NoJob ==
  [ id |-> <<>>, position_name |-> "", experience_level |-> <<>>,
    desired_skills |-> <<>>, categories |-> <<>>,
    company_stage |-> <<>>, company_funding |-> PyNone,
    foundation_year |-> PyNone ]

Extracted(job) == [exc |-> "", job_data |-> job]
ExtractFails(e) == [exc |-> e, job_data |-> NoJob]

\* lines 161-168: company_stage and foundation_year from the profile block
\* (company_stage: <<>> for None, <<text>> otherwise)
ProfileFields(job, headings) ==
  IF headings = <<>> THEN Extracted(job)
  ELSE IF Len(headings) < 3 THEN ExtractFails("IndexError")
  ELSE LET y == IntParse(headings[3])
       IN Extracted([job EXCEPT
            !.company_stage = <<headings[1]>>,
            !.foundation_year = IF y.kind = "raise" THEN PyNone ELSE y])

\* ExtractOffer with a missing skill container read as no skills
ExtractOfferDefaultsSkills(item) ==
  LET m == re_search(item.url)
      funding == extract_funding(item.headings)
  IN IF m = <<>> THEN ExtractFails("AttributeError")
     ELSE IF ~item.hasCatBox THEN ExtractFails("AttributeError")
     ELSE IF ~item.hasEmployees THEN ExtractFails("AttributeError")
     ELSE IF ~item.hasWebsite THEN ExtractFails("TypeError")
     ELSE IF funding.kind = "raise" THEN ExtractFails(funding.exc)
     ELSE ProfileFields(
            [ id |-> Strip(m[1], "/"),
              position_name |-> item.position_name,
              experience_level |->
                IF item.badges # <<>> THEN item.badges ELSE InternStr,
              desired_skills |-> item.skills,
              categories |-> item.cats,
              company_stage |-> <<>>,
              company_funding |-> funding,
              foundation_year |-> PyNone ],
            item.headings)

\* lines 138-168: the job_data of one offer, or the exception raised on
\* the way, in the order Python evaluates the fields
ExtractOffer(item) ==
  LET m == re_search(item.url)
      funding == extract_funding(item.headings)
  IN IF m = <<>> THEN ExtractFails("AttributeError")
     ELSE IF ~item.hasSkillBox THEN ExtractFails("AttributeError")
     ELSE IF ~item.hasCatBox THEN ExtractFails("AttributeError")
     ELSE IF ~item.hasEmployees THEN ExtractFails("AttributeError")
     ELSE IF ~item.hasWebsite THEN ExtractFails("TypeError")
     ELSE IF funding.kind = "raise" THEN ExtractFails(funding.exc)
     ELSE ProfileFields(
            [ id |-> Strip(m[1], "/"),
              position_name |-> item.position_name,
              experience_level |->
                IF item.badges # <<>> THEN item.badges ELSE InternStr,
              desired_skills |-> item.skills,
              categories |-> item.cats,
              company_stage |-> <<>>,
              company_funding |-> funding,
              foundation_year |-> PyNone ],
            item.headings)

(***************************************************************************)
(* The store: the job_offers table behind one connection.                  *)
(* store: committed rows; pending: rows inserted by the open transaction;  *)
(* txn: "idle", "active" or "aborted".                                     *)
(***************************************************************************)
EmptyDb == [store |-> {}, pending |-> {}, txn |-> "idle"]

\* rows a query on this connection sees
Visible(d) == d.store \cup d.pending

Ids(rows) == {r.id : r \in rows}

\* cur.execute(INSERT_DATA_QUERY, job_data): a plain insert into a table
\* keyed uniquely by id
DbExecute(d, row) ==
  IF d.txn = "aborted" THEN [db |-> d, exc |-> "InFailedSqlTransaction"]
  ELSE IF row.id \in Ids(Visible(d))
  THEN [db |-> [d EXCEPT !.txn = "aborted"], exc |-> "UniqueViolation"]
  ELSE [db |-> [d EXCEPT !.pending = @ \cup {row}, !.txn = "active"],
        exc |-> ""]

\* DbCommit that makes nothing durable
DbCommitKeepsPending(d) == d

\* conn.commit(); committing an aborted transaction rolls it back
DbCommit(d) ==
  IF d.txn = "aborted" THEN [d EXCEPT !.pending = {}, !.txn = "idle"]
  ELSE [store |-> d.store \cup d.pending, pending |-> {}, txn |-> "idle"]

\* DbRollback that leaves the transaction as it is
DbRollbackKeepsAborted(d) == d

\* conn.rollback()
DbRollback(d) == [d EXCEPT !.pending = {}, !.txn = "idle"]

\* conn.close(): an open transaction is discarded
DbClose(d) == [d EXCEPT !.pending = {}, !.txn = "idle"]

\* AppendOffer without the rollback of the except clause
AppendOfferNoRollback(d, row) ==
  LET e == DbExecute(d, row)
  IN IF e.exc = ""
     THEN [db |-> DbCommit(e.db), outcome |-> "Inserted", exc |-> ""]
     ELSE IF e.exc = "UniqueViolation"
     THEN [db |-> e.db, outcome |-> "AlreadyExists", exc |-> ""]
     ELSE [db |-> e.db, outcome |-> "none", exc |-> e.exc]

\* AppendOffer without the commit after the insert
AppendOfferNoCommit(d, row) ==
  LET e == DbExecute(d, row)
  IN IF e.exc = ""
     THEN [db |-> e.db, outcome |-> "Inserted", exc |-> ""]
     ELSE IF e.exc = "UniqueViolation"
     THEN [db |-> DbRollback(e.db), outcome |-> "AlreadyExists", exc |-> ""]
     ELSE [db |-> e.db, outcome |-> "none", exc |-> e.exc]

\* AppendOffer without the except clause
AppendOfferReraises(d, row) ==
  LET e == DbExecute(d, row)
  IN IF e.exc = ""
     THEN [db |-> DbCommit(e.db), outcome |-> "Inserted", exc |-> ""]
     ELSE [db |-> DbRollback(e.db), outcome |-> "none", exc |-> e.exc]

\* lines 171-180: insert, commit; a UniqueViolation is logged and rolled back
AppendOffer(d, row) ==
  LET e == DbExecute(d, row)
  IN IF e.exc = ""
     THEN [db |-> DbCommit(e.db), outcome |-> "Inserted", exc |-> ""]
     ELSE IF e.exc = "UniqueViolation"
     THEN [db |-> DbRollback(e.db), outcome |-> "AlreadyExists", exc |-> ""]
     ELSE [db |-> e.db, outcome |-> "none", exc |-> e.exc]

(***************************************************************************)
(* State                                                                   *)
(***************************************************************************)
VARIABLES
  pc,             \* position of main(): the statement that runs next
  run,            \* number of the current run of main()
  error,          \* the exception main() is ending with ("" for none)
  connOpen,       \* conn and cur are open
  driver,         \* "unbound", "open" or "closed"
  marker,         \* the authenticated-UI marker is on the page
  source,         \* the listing items the site holds (numbers of Catalog)
  rendered,       \* how many of them are rendered in the list
  loading,        \* the page is fetching further items after a PAGE_DOWN
  paneOpen,       \* a detail pane is visible
  start_block_n,  \* the cursor
  window_start,   \* the cursor when the current window was taken
  section,        \* section_job_blocks: indices of the blocks of the window
  k,              \* position in section of the offer being visited
  db,             \* the store behind conn
  opened,         \* indices of the blocks whose detail was opened, this run
  log,            \* this run's "added" / "already in database" log lines
  prev,           \* what is kept of the earlier runs of main()
  fpc, fText, fResult, \* the funding normaliser applied to one text
  dpc, table, counts   \* extract_data of the dashboard over one table

vars == << pc, run, error, connOpen, driver, marker, source, rendered,
           loading, paneOpen, start_block_n, window_start, section, k, db,
           opened, log, prev, fpc, fText, fResult, dpc, table, counts >>

fundingVars == <<fpc, fText, fResult>>
dashVars == <<dpc, table, counts>>
crawlVars == << rendered, loading, paneOpen, start_block_n, window_start,
                section, k, opened, log >>

\* the sequences over S of length at most n
RECURSIVE SeqsUpTo(_, _)
SeqsUpTo(S, n) ==
  IF n = 0 THEN {<<>>}
  ELSE LET shorter == SeqsUpTo(S, n - 1)
       IN shorter \cup {Append(q, x) : q \in shorter, x \in S}

NoRun == [run |-> 0, appended |-> 0]

\* the listing item of the i-th block of the list
Item(i) == Catalog[source[i]]

\* a process of main() that has not started, over a given store
Fresh ==
  /\ pc = "connect"
  /\ error = ""
  /\ connOpen = FALSE
  /\ driver = "unbound"
  /\ marker = FALSE
  /\ rendered = 0
  /\ loading = FALSE
  /\ paneOpen = FALSE
  /\ start_block_n = 0
  /\ window_start = 0
  /\ section = <<>>
  /\ k = 0
  /\ opened = <<>>
  /\ log = <<>>

Init ==
  /\ Fresh
  /\ run = 1
  /\ source \in SeqsUpTo(DOMAIN Catalog, MaxItems)
  /\ db = EmptyDb
  /\ prev = NoRun
  /\ fpc = "idle"
  /\ fText = <<>>
  /\ fResult = PyNone
  /\ dpc = "idle"
  /\ table = <<>>
  /\ counts = {}

\* an exception leaves the try block of main() for its finally clause
Raise(e) == pc' = "finally" /\ error' = e

\* what is kept of the runs of main() that ended: their number and the
\* largest number of offers one of them appended
RunEnd ==
  [ run |-> run,
    appended |-> IF Len(log) > prev.appended THEN Len(log) ELSE prev.appended ]

(***************************************************************************)
(* main() up to the crawl                                                  *)
(***************************************************************************)
\* lines 221-222; a refused connection ends main() before the try block
Connect ==
  /\ pc = "connect"
  /\ \/ /\ connOpen' = TRUE
        /\ pc' = "setup_driver"
        /\ error' = error
     \/ /\ connOpen' = FALSE
        /\ pc' = "done"
        /\ error' = "OperationalError"
  /\ UNCHANGED <<run, driver, marker, source, db, prev, crawlVars,
                 fundingVars, dashVars>>

\* line 225, setup_driver(): Firefox starts, or webdriver.Firefox raises
SetupDriver ==
  /\ pc = "setup_driver"
  /\ \/ driver' = "open" /\ pc' = "login_get" /\ error' = error
     \/ driver' = driver /\ Raise("WebDriverException")
  /\ UNCHANGED <<run, connOpen, marker, source, db, prev, crawlVars,
                 fundingVars, dashVars>>

\* lines 46-48: load the login page and wait (bounded) for its button
LoginGet ==
  /\ pc = "login_get"
  /\ \/ pc' = "login_submit" /\ error' = error
     \/ Raise("TimeoutException")
  /\ UNCHANGED <<run, connOpen, driver, marker, source, db, prev, crawlVars,
                 fundingVars, dashVars>>

\* lines 51-54: type the credentials and click; the site answers with the
\* authenticated UI or with a challenge. A page without the two inputs
\* makes inputs[0] raise
LoginSubmit ==
  /\ pc = "login_submit"
  /\ \/ pc' = "login_poll" /\ error' = error /\ marker' \in BOOLEAN
     \/ Raise("IndexError") /\ marker' = marker
  /\ UNCHANGED <<run, connOpen, driver, source, db, prev, crawlVars,
                 fundingVars, dashVars>>

\* the operator solves the challenge in the browser
OperatorSolves ==
  /\ pc \in {"login_poll", "login_prompt"}
  /\ ~marker
  /\ marker' = TRUE
  /\ UNCHANGED <<pc, run, error, connOpen, driver, source, db, prev,
                 crawlVars, fundingVars, dashVars>>

\* LoginPoll with the TimeoutException left uncaught
LoginPollAbandons ==
  /\ pc = "login_poll"
  /\ IF marker THEN pc' = "crawl_get" /\ error' = error
     ELSE Raise("TimeoutException")
  /\ UNCHANGED <<run, connOpen, driver, marker, source, db, prev,
                 crawlVars, fundingVars, dashVars>>

\* lines 57-67: one pass of the while loop up to the prompt: the bounded
\* wait finds the marker and login returns, or it times out and the
\* TimeoutException is caught
LoginPoll ==
  /\ pc = "login_poll"
  /\ pc' = (IF marker THEN "crawl_get" ELSE "login_prompt")
  /\ error' = error
  /\ UNCHANGED <<run, connOpen, driver, marker, source, db, prev,
                 crawlVars, fundingVars, dashVars>>

\* LoginPrompt with a break after input()
LoginPromptProceeds ==
  /\ pc = "login_prompt"
  /\ pc' = "crawl_get"
  /\ UNCHANGED <<run, error, connOpen, driver, marker, source, db, prev,
                 crawlVars, fundingVars, dashVars>>

\* line 68: input() returns when the operator presses Enter; the loop
\* polls again
LoginPrompt ==
  /\ pc = "login_prompt"
  /\ pc' = "login_poll"
  /\ UNCHANGED <<run, error, connOpen, driver, marker, source, db, prev,
                 crawlVars, fundingVars, dashVars>>

(***************************************************************************)
(* scroll_and_load_jobs                                                    *)
(***************************************************************************)
\* lines 83-88: load the filtered listing and wait (bounded) for a first
\* job block; the page renders some first part of the source
CrawlGet ==
  /\ pc = "crawl_get"
  /\ \/ /\ \E r \in 1..Len(source) : rendered' = r
        /\ start_block_n' = 0
        /\ pc' = "query"
        /\ error' = error
     \/ /\ Raise("TimeoutException")
        /\ UNCHANGED <<rendered, start_block_n>>
  /\ UNCHANGED <<run, connOpen, driver, marker, source, db, prev, loading,
                 paneOpen, window_start, section, k, opened, log, fundingVars, dashVars>>

\* WindowOf with the slice taken from the top of the list
WindowOfFromTop(n, start) ==
  [i \in 1..(IF WindowSize < n THEN WindowSize ELSE n) |-> i]

\* all_job_blocks[start: start + WindowSize], all_job_blocks being the n
\* rendered blocks
WindowOf(n, start) ==
  IF start >= n THEN <<>>
  ELSE [i \in 1..((IF start + WindowSize < n THEN start + WindowSize ELSE n)
                  - start) |-> start + i]

\* CrawlEnds with a window of one block ending the loop as well
CrawlEndsOnShortWindow(sec) == Len(sec) <= 1

\* line 93: the test that ends the while loop
CrawlEnds(sec) == Len(sec) = 0

\* lines 90-94: take the next window; an empty window ends the crawl
QueryWindow ==
  /\ pc = "query"
  /\ section' = WindowOf(rendered, start_block_n)
  /\ window_start' = start_block_n
  /\ IF CrawlEnds(section')
     THEN pc' = "finished" /\ k' = 0
     ELSE pc' = "open" /\ k' = 1
  /\ UNCHANGED <<run, error, connOpen, driver, marker, source, db, prev,
                 rendered, loading, paneOpen, start_block_n, opened, log,
                 fundingVars, dashVars>>

\* line 98: click the offer's detail trigger
OpenDetail ==
  /\ pc = "open"
  /\ paneOpen' = TRUE
  /\ opened' = Append(opened, section[k])
  /\ pc' = "wait_detail"
  /\ UNCHANGED <<run, error, connOpen, driver, marker, source, db, prev,
                 rendered, loading, start_block_n, window_start, section, k,
                 log, fundingVars, dashVars>>

\* lines 100-102: wait (bounded) for the pane's button to be clickable
WaitDetail ==
  /\ pc = "wait_detail"
  /\ \/ pc' = "grab" /\ error' = error
     \/ Raise("TimeoutException")
  /\ UNCHANGED <<run, connOpen, driver, marker, source, db, prev, crawlVars,
                 fundingVars, dashVars>>

\* NextCursor with the cursor kept on an offer that was already stored
NextCursorSkipsDuplicate(n, outcome) ==
  IF outcome = "AlreadyExists" THEN n ELSE n + 1

\* line 113: the cursor after an offer was grabbed
NextCursor(n, outcome) == n + 1

\* GrabOfferInfo with the cursor advanced also when the grab raises
GrabOfferInfoAlwaysAdvances ==
  /\ pc = "grab"
  /\ start_block_n' = start_block_n + 1
  /\ LET x == ExtractOffer(Item(section[k]))
         a == AppendOffer(db, x.job_data)
     IN IF x.exc # ""
        THEN Raise(x.exc) /\ UNCHANGED <<db, log>>
        ELSE IF a.exc # ""
        THEN Raise(a.exc) /\ db' = a.db /\ UNCHANGED log
        ELSE /\ db' = a.db
             /\ log' = Append(log, [block |-> section[k], id |-> x.job_data.id,
                                    outcome |-> a.outcome])
             /\ pc' = "close"
             /\ error' = error
  /\ UNCHANGED <<run, connOpen, driver, marker, source, prev, rendered,
                 loading, paneOpen, window_start, section, k, opened,
                 fundingVars, dashVars>>

\* lines 105-113: snapshot the pane, grab_offer_info (extract, insert),
\* advance the cursor. An exception of the extraction or of the insert
\* leaves scroll_and_load_jobs
GrabOfferInfo ==
  /\ pc = "grab"
  /\ LET x == ExtractOffer(Item(section[k]))
         a == AppendOffer(db, x.job_data)
     IN IF x.exc # ""
        THEN Raise(x.exc) /\ UNCHANGED <<db, log, start_block_n>>
        ELSE IF a.exc # ""
        THEN Raise(a.exc) /\ db' = a.db /\ UNCHANGED <<log, start_block_n>>
        ELSE /\ db' = a.db
             /\ log' = Append(log, [block |-> section[k], id |-> x.job_data.id,
                                    outcome |-> a.outcome])
             /\ start_block_n' = NextCursor(start_block_n, a.outcome)
             /\ pc' = "close"
             /\ error' = error
  /\ UNCHANGED <<run, connOpen, driver, marker, source, prev, rendered,
                 loading, paneOpen, window_start, section, k, opened,
                 fundingVars, dashVars>>

\* CloseDetail without the wait for the pane to be invisible
CloseDetailNoWait ==
  /\ pc = "close"
  /\ paneOpen' \in BOOLEAN
  /\ error' = error
  /\ IF k < Len(section)
     THEN pc' = "open" /\ k' = k + 1
     ELSE pc' = "scroll" /\ k' = k
  /\ UNCHANGED <<run, connOpen, driver, marker, source, db, prev, rendered,
                 loading, start_block_n, window_start, section, opened, log,
                 fundingVars, dashVars>>

\* lines 114-117: click the close button and wait (bounded) until the pane
\* is invisible; then the next offer of the window, or the scroll
CloseDetail ==
  /\ pc = "close"
  /\ \/ /\ paneOpen' = FALSE
        /\ error' = error
        /\ IF k < Len(section)
           THEN pc' = "open" /\ k' = k + 1
           ELSE pc' = "scroll" /\ k' = k
     \/ /\ Raise("TimeoutException")
        /\ UNCHANGED <<paneOpen, k>>
  /\ UNCHANGED <<run, connOpen, driver, marker, source, db, prev, rendered,
                 loading, start_block_n, window_start, section, opened, log,
                 fundingVars, dashVars>>

\* Scroll with the ElementNotInteractableException left uncaught
ScrollUncaught ==
  /\ pc = "scroll"
  /\ \/ /\ loading' = (loading \/ rendered < Len(source))
        /\ pc' = "query"
        /\ error' = error
     \/ /\ loading' = loading
        /\ Raise("ElementNotInteractableException")
  /\ UNCHANGED <<run, connOpen, driver, marker, source, db, prev,
                 rendered, paneOpen, start_block_n, window_start, section, k,
                 opened, log, fundingVars, dashVars>>

\* lines 119-122: PAGE_DOWN on the last block of the window; the page
\* starts fetching what is left, or the block is not interactable and the
\* driver sleeps; either way the while loop goes round
Scroll ==
  /\ pc = "scroll"
  /\ \/ loading' = (loading \/ rendered < Len(source))
     \/ loading' = loading
  /\ pc' = "query"
  /\ UNCHANGED <<run, error, connOpen, driver, marker, source, db, prev,
                 rendered, paneOpen, start_block_n, window_start, section, k,
                 opened, log, fundingVars, dashVars>>

\* the page renders further blocks at the end of the list
RenderMore ==
  /\ loading
  /\ pc \in {"query", "open", "wait_detail", "grab", "close", "scroll"}
  /\ \E r \in (rendered + 1)..Len(source) : rendered' = r
  /\ loading' = FALSE
  /\ UNCHANGED <<pc, run, error, connOpen, driver, marker, source, db, prev,
                 paneOpen, start_block_n, window_start, section, k, opened,
                 log, fundingVars, dashVars>>

(***************************************************************************)
(* main(): the end                                                         *)
(***************************************************************************)
\* line 228
Finished ==
  /\ pc = "finished"
  /\ pc' = "finally"
  /\ UNCHANGED <<run, error, connOpen, driver, marker, source, db, prev,
                 crawlVars, fundingVars, dashVars>>

\* lines 229-233: close cur, conn and driver; a driver that was never
\* bound makes driver.close() raise, and that exception replaces the one
\* main() was ending with
Finally ==
  /\ pc = "finally"
  /\ connOpen' = FALSE
  /\ db' = DbClose(db)
  /\ IF driver = "unbound"
     THEN driver' = driver /\ error' = "UnboundLocalError"
     ELSE driver' = "closed" /\ error' = error
  /\ pc' = "done"
  /\ UNCHANGED <<run, marker, source, prev, crawlVars, fundingVars, dashVars>>

\* main() is run again, over the same source and the same store
NextRun ==
  /\ pc = "done"
  /\ run < MaxRuns
  /\ run' = run + 1
  /\ pc' = "connect"
  /\ error' = ""
  /\ connOpen' = FALSE
  /\ driver' = "unbound"
  /\ marker' = FALSE
  /\ rendered' = 0
  /\ loading' = FALSE
  /\ paneOpen' = FALSE
  /\ start_block_n' = 0
  /\ window_start' = 0
  /\ section' = <<>>
  /\ k' = 0
  /\ opened' = <<>>
  /\ log' = <<>>
  /\ prev' = RunEnd
  /\ UNCHANGED <<source, db, fundingVars, dashVars>>

Next ==
  \/ Connect \/ SetupDriver \/ LoginGet \/ LoginSubmit \/ OperatorSolves
  \/ LoginPoll \/ LoginPrompt \/ CrawlGet \/ QueryWindow \/ OpenDetail
  \/ WaitDetail \/ GrabOfferInfo \/ CloseDetail \/ Scroll \/ RenderMore
  \/ Finished \/ Finally \/ NextRun

Spec == Init /\ [][Next]_vars

\* the scheduling of login: the bounded wait of a poll ends, and the
\* operator answers every prompt
SpecFair == Spec /\ WF_vars(LoginPoll) /\ WF_vars(LoginPrompt)

(***************************************************************************)
(* extract_funding applied to one funding text                             *)
(***************************************************************************)
FundingAlphabet == {"$", "1", "4", ".", "K", "M"}

\* the amount n / 10^f * multiplier, rounded down, is below 2^31 - 1
AmountFits(d, multiplier) ==
  Pow10(d.f) <= multiplier => d.n <= 2147483646 \div (multiplier \div Pow10(d.f))

\* the funding texts the normaliser is applied to
FundingTexts ==
  { t \in SeqsUpTo(FundingAlphabet, MaxTextLen)
         \cup {Funding15M, Funding500K, Funding2B, Plain1000, NotAvailable,
               Bootstrapped} :
      LET funding == CleanFunding(t)
      IN SuffixHits(funding) # {} =>
           LET factor == FirstFactor(funding)
               d == DecimalOf(Remove(funding, factor.suffix))
           IN d.ok => AmountFits(d, factor.multiplier) }

InitFunding ==
  /\ Fresh
  /\ run = 1
  /\ source = <<>>
  /\ db = EmptyDb
  /\ prev = NoRun
  /\ fpc = "call"
  /\ fText \in FundingTexts
  /\ fResult = PyNone
  /\ dpc = "idle"
  /\ table = <<>>
  /\ counts = {}

\* lines 194-206 on the text of the second heading
Normalize ==
  /\ fpc = "call"
  /\ fResult' = NormalizeFunding(fText)
  /\ fpc' = "return"
  /\ UNCHANGED <<pc, run, error, connOpen, driver, marker, source, db, prev,
                 crawlVars, fText, dashVars>>

SpecFunding == InitFunding /\ [][Normalize]_vars

(***************************************************************************)
(* create_dashboard.py, extract_data: the rows of job_offers grouped by    *)
(* (category, skill). A frame is a sequence of records; a missing value    *)
(* is NaN.                                                                 *)
(***************************************************************************)
NaN == "NaN"

CategoryTags == {"Data", "Web"}
SkillTags == {"Python"}

\* the tables the query may read: row i has id i and two lists of tags
Tables ==
  UNION { [1..n -> [categories : SeqsUpTo(CategoryTags, MaxTags),
                    desired_skills : SeqsUpTo(SkillTags, MaxTags)]] :
          n \in 0..MaxRows }

\* the cells a list-like cell explodes into: its elements, or one NaN for
\* an empty list
ExplodeCell(cell) == IF cell = <<>> THEN <<NaN>> ELSE cell

\* DataFrame.explode(column): every row is repeated once per element of
\* its cell, in order
RECURSIVE Explode(_, _)
Explode(frame, column) ==
  IF frame = <<>> THEN <<>>
  ELSE LET row == Head(frame)
           cells == ExplodeCell(row[column])
       IN [i \in 1..Len(cells) |-> [row EXCEPT ![column] = cells[i]]]
            \o Explode(Tail(frame), column)

\* groupby(['categories', 'desired_skills']).size().reset_index(name='counts'):
\* one row per pair of keys, rows with a NaN key dropped
GroupSize(frame) ==
  LET kept == {i \in 1..Len(frame) :
                 frame[i].categories # NaN /\ frame[i].desired_skills # NaN}
  IN { [ categories |-> frame[i].categories,
         desired_skills |-> frame[i].desired_skills,
         counts |-> Cardinality({j \in kept : frame[j] = frame[i]}) ] :
       i \in kept }

\* lines 119-127 on the fetched rows
GroupedCounts(data) ==
  GroupSize(Explode(Explode(data, "categories"), "desired_skills"))

InitDashboard ==
  /\ Fresh
  /\ run = 1
  /\ source = <<>>
  /\ db = EmptyDb
  /\ prev = NoRun
  /\ fpc = "idle"
  /\ fText = <<>>
  /\ fResult = PyNone
  /\ dpc = "call"
  /\ table \in Tables
  /\ counts = {}

\* lines 104-127: connect, fetch and group; a failed connection is
\* printed, and cur.description is then read on None
extract_data ==
  /\ dpc = "call"
  /\ \/ counts' = GroupedCounts(table) /\ dpc' = "return"
     \/ counts' = counts /\ dpc' = "AttributeError"
  /\ UNCHANGED <<pc, run, error, connOpen, driver, marker, source, db, prev,
                 crawlVars, fundingVars, table>>

SpecDashboard == InitDashboard /\ [][extract_data]_vars

(***************************************************************************)
(* Properties                                                              *)
(***************************************************************************)
\* the offer being visited
CurrentItem == Item(section[k])

\* statements of scroll_and_load_jobs
CrawlPcs ==
  {"crawl_get", "query", "open", "wait_detail", "grab", "close", "scroll",
   "finished"}

\* C1: appending a listing twice leaves the store as appending it once
\* does, and the second append answers AlreadyExists without raising.
\* Stated of every store the crawl reaches and every offer it is about to
\* append there.
C1_AppendIdempotent ==
  pc = "grab" =>
    LET x == ExtractOffer(CurrentItem)
        a1 == AppendOffer(db, x.job_data)
        a2 == AppendOffer(a1.db, x.job_data)
    IN x.exc = "" =>
         /\ a1.exc = ""
         /\ a2.exc = ""
         /\ a2.outcome = "AlreadyExists"
         /\ a2.db = a1.db

\* one run appended the same id twice: Inserted, then AlreadyExists
C1_Witness ==
  \E i, j \in 1..Len(log) :
    /\ i < j
    /\ log[i].id = log[j].id
    /\ log[i].outcome = "Inserted"
    /\ log[j].outcome = "AlreadyExists"

UniqueIds == \A r1, r2 \in Visible(db) : r1.id = r2.id => r1 = r2

\* C2: the store holds at most one row per id, and no step removes or
\* changes a stored row: the rows only grow, so an append of a stored id
\* changes nothing.
C2_UniqueAppendOnly == []UniqueIds /\ [][Visible(db) \subseteq Visible(db')]_vars

\* an offer that shares its id with a stored row and differs from it was
\* appended, and the stored row is still the first one
C2_Witness ==
  \E i \in 1..Len(log) :
    /\ log[i].outcome = "AlreadyExists"
    /\ ExtractOffer(Item(log[i].block)).job_data \notin db.store
    /\ log[i].id \in Ids(db.store)

\* C3: the crawl runs only while the authenticated-UI marker is on the
\* page: no statement of scroll_and_load_jobs is reached without it.
C3_CrawlOnlyAuthenticated == pc \in CrawlPcs => marker

\* a second run of main() has loaded the listing page
C3_Witness == pc = "query" /\ marker /\ run = 2

\* C4: the challenge loop is never abandoned and never fatal. A poll that
\* times out (no marker) is followed by the prompt; the prompt is followed
\* by another poll; neither step ends login with an exception, however
\* many times the loop went round; and once the marker is on the page
\* while login polls or prompts, login reaches the crawl.
C4_ChallengeLoop ==
  /\ [][(pc = "login_poll" /\ pc' # pc) =>
          /\ error' = ""
          /\ pc' = (IF marker THEN "crawl_get" ELSE "login_prompt")]_vars
  /\ [][(pc = "login_prompt" /\ pc' # pc) =>
          (error' = "" /\ pc' = "login_poll")]_vars
  /\ ((pc \in {"login_poll", "login_prompt"} /\ marker) ~> pc = "crawl_get")

\* a poll timed out, login prompts, and the operator has solved the
\* challenge meanwhile
C4_Witness == pc = "login_prompt" /\ marker /\ run = 2

\* C5: when the per-item protocol has gone over a window, the cursor is
\* its value at the start of the window plus the number of items of the
\* window, whichever of them were answered AlreadyExists.
C5_CursorProgression ==
  pc = "scroll" => start_block_n = window_start + Len(section)

\* a window of two items is done, one of them Inserted and one AlreadyExists
C5_Witness ==
  /\ pc = "scroll"
  /\ Len(section) = 2
  /\ \E i, j \in 1..Len(log) :
       /\ log[i].block > window_start
       /\ log[j].block > window_start
       /\ log[i].outcome = "Inserted"
       /\ log[j].outcome = "AlreadyExists"

\* the crawl of this run has returned without an exception
CrawlEndedOk ==
  pc = "finished" \/ (pc \in {"finally", "done"} /\ error = "")

\* C6: a query whose window is empty ends the crawl without an exception;
\* the crawl ends that way only when the window is empty; and after it no
\* detail is opened, nothing is stored and nothing is scrolled in the run.
C6_EndsOnEmptyWindow ==
  /\ [](CrawlEndedOk => (section = <<>> /\ ~paneOpen))
  /\ [][(pc = "query" /\ pc' # pc) =>
          (pc' = "finished" <=> WindowOf(rendered, start_block_n) = <<>>)]_vars
  /\ [][(CrawlEndedOk /\ run' = run) =>
          /\ pc' \in {"finished", "finally", "done"}
          /\ opened' = opened
          /\ log' = log
          /\ db'.store = db.store
          /\ start_block_n' = start_block_n
          /\ error' = ""]_vars

\* a run has ended without an exception, having opened two offers
C6_Witness ==
  /\ pc = "done"
  /\ error = ""
  /\ section = <<>>
  /\ Len(opened) = 2
  /\ window_start = 2

\* the rows a single run over the first n offers of the source leaves in
\* an empty store: for every id the row of the first offer that has it
FirstRows(n) ==
  { ExtractOffer(Item(i)).job_data : i \in
      { i \in 1..n :
          \A j \in 1..(i - 1) :
            ExtractOffer(Item(j)).job_data.id # ExtractOffer(Item(i)).job_data.id } }

\* exceptions of the store
StoreErrors == {"UniqueViolation", "InFailedSqlTransaction"}

\* C7: after any number of runs over the unchanged source the store holds
\* exactly what a single run over the offers appended so far leaves: one
\* row per id, none twice and none missing; so a run that appends the
\* offers an earlier run appended leaves the store as it found it, and no
\* run ends with an exception of the store.
C7_RerunStable ==
  pc = "done" =>
    /\ error \notin StoreErrors
    /\ db = [EmptyDb EXCEPT !.store =
               FirstRows(IF Len(log) > prev.appended THEN Len(log)
                         ELSE prev.appended)]

\* a second run has ended without an exception, having appended the two
\* offers the first run appended, both answered AlreadyExists
C7_Witness ==
  /\ pc = "done"
  /\ run = 2
  /\ error = ""
  /\ prev.appended = 2
  /\ Len(log) = 2
  /\ \A i \in 1..Len(log) : log[i].outcome = "AlreadyExists"
  /\ db.store # {}

\* the detail of the item has no id in its URL, or lacks the skill or the
\* category container
Structural(item) ==
  re_search(item.url) = <<>> \/ ~item.hasSkillBox \/ ~item.hasCatBox

\* C8: an offer whose URL has no 36-character token, or whose detail lacks
\* the skill or category container, ends the crawl with an exception:
\* nothing is written for it, and after an exception no further detail is
\* opened and nothing is stored in the run, the exception staying raised.
C8_StructuralFailureHalts ==
  /\ [][(pc = "grab" /\ pc' # pc /\ Structural(CurrentItem)) =>
          /\ pc' = "finally"
          /\ error' # ""
          /\ db' = db
          /\ log' = log]_vars
  /\ [][(pc \in {"finally", "done"} /\ error # "" /\ run' = run) =>
          /\ pc' \in {"finally", "done"}
          /\ error' # ""
          /\ opened' = opened
          /\ log' = log
          /\ db'.store = db.store]_vars

\* a run has ended on the AttributeError of its first offer; the source
\* holds a second offer, which was not opened, and the store is empty
C8_Witness ==
  /\ pc = "done"
  /\ error = "AttributeError"
  /\ Len(source) = 2
  /\ opened = <<1>>
  /\ Structural(Item(1))
  /\ db.store = {}

\* C9: an offer with a profile block and no structural failure is
\* persisted and the crawl goes on to close its pane, whatever the funding
\* and foundation-year texts are and however many headings the block has:
\* the grab step raises nothing.
C9_SoftFailureNeverFatal ==
  [][(/\ pc = "grab"
      /\ pc' # pc
      /\ ~Structural(CurrentItem)
      /\ CurrentItem.hasEmployees
      /\ CurrentItem.hasWebsite
      /\ CurrentItem.headings # <<>>) =>
       /\ pc' = "close"
       /\ error' = ""
       /\ log' # log
       /\ log'[Len(log')].id \in Ids(db'.store)]_vars

\* n / 10^f times the multiplier, rounded down
ExactAmount(d, multiplier) ==
  IF Pow10(d.f) <= multiplier
  THEN d.n * (multiplier \div Pow10(d.f))
  ELSE d.n \div (Pow10(d.f) \div multiplier)

\* C10: the result of the normaliser on a text: with a suffix K, M or B
\* (the first present, in that order) and a decimal left, the decimal times
\* the multiplier rounded down; with no suffix, the integer the text
\* spells, or null when it spells none.
C10_FundingResult ==
  fpc = "return" =>
    LET funding == CleanFunding(fText)
    IN IF SuffixHits(funding) # {}
       THEN LET factor == FirstFactor(funding)
                d == DecimalOf(Remove(funding, factor.suffix))
            IN d.ok => fResult = PyInt(ExactAmount(d, factor.multiplier))
       ELSE fResult = (IF funding # <<>> /\ AllDigits(funding)
                       THEN PyInt(DigitsValue(funding)) ELSE PyNone)

\* C11: the experience_level of an extracted listing is a sequence of
\* tags that is never empty, and for a detail without an experience badge
\* it is the sequence of one tag, 'Intern'.
C11_ExperienceDefault ==
  pc = "close" =>
    LET level == ExtractOffer(CurrentItem).job_data.experience_level
    IN /\ level # <<>>
       /\ CurrentItem.badges = <<>> =>
            (Len(level) = 1 /\ level[1] = InternStr)

\* the elements of a sequence
Range(q) == {q[i] : i \in 1..Len(q)}

\* the stored listings that contain category c and skill s
ListingsWith(c, s) ==
  {i \in 1..Len(table) :
     c \in Range(table[i].categories) /\ s \in Range(table[i].desired_skills)}

\* C12: the result of the read query has, for every (category, skill) pair
\* some stored listing contains, one row whose count is the number of
\* stored listings that contain both, and no other row.
C12_AggregationCounts ==
  dpc = "return" =>
    counts = { [categories |-> c, desired_skills |-> s,
                counts |-> Cardinality(ListingsWith(c, s))] :
               <<c, s>> \in {p \in CategoryTags \X SkillTags :
                               ListingsWith(p[1], p[2]) # {}} }

\* C13: one item is in flight at a time. A detail is opened only while no
\* pane is open; an open pane is the pane of the offer being visited; the
\* step from the close to the next open is taken only with the pane
\* invisible; and when the wait for that times out the crawl ends with the
\* exception and opens nothing more in the run.
C13_OneItemInFlight ==
  /\ [](pc = "open" => ~paneOpen)
  /\ []((paneOpen /\ pc \in {"wait_detail", "grab", "close"}) =>
          (opened # <<>> /\ opened[Len(opened)] = section[k]))
  /\ [][(pc = "close" /\ pc' # pc /\ paneOpen') =>
          (pc' = "finally" /\ error' = "TimeoutException")]_vars
  /\ [][(error # "" /\ run' = run) => opened' = opened]_vars

\* the first offer of a window was visited and its pane is closed; the
\* second is about to be opened
C13_Witness ==
  /\ pc = "open"
  /\ k = 2
  /\ ~paneOpen
  /\ opened = <<1>>
  /\ Len(log) = 1

\* C14 as it stands: every offer whose visit was started and is no longer
\* in its open-wait or grab step has advanced the cursor by one, whatever
\* the outcome of those steps.
C14_CursorAdvancesRegardless ==
  pc \notin {"wait_detail", "grab"} => start_block_n = Len(opened)

\* C14, amended: the cursor advances by one for every offer whose grab
\* returns, Inserted or AlreadyExists, and only then; when the open-wait
\* times out or the grab raises, the crawl ends with the cursor still on
\* that offer.
C14_CursorCountsAppends ==
  /\ start_block_n = Len(log)
  /\ (pc \in {"finally", "done"} /\ Len(opened) > Len(log)) =>
       (error # "" /\ start_block_n = Len(opened) - 1)

\* the second offer of a run was opened and the wait for its pane timed
\* out: the cursor is still on it
C14_Witness ==
  /\ pc = "finally"
  /\ error = "TimeoutException"
  /\ opened = <<1, 2>>
  /\ Len(log) = 1
  /\ start_block_n = 1

\* C15: between items the connection holds no open and no aborted
\* transaction: every append has ended with a commit or a rollback; so an
\* offer with a new id is inserted, also directly after a duplicate.
C15_TransactionReleased ==
  /\ db.txn = "idle"
  /\ db.pending = {}
  /\ pc = "grab" =>
       LET x == ExtractOffer(CurrentItem)
           a == AppendOffer(db, x.job_data)
       IN (x.exc = "" /\ x.job_data.id \notin Ids(db.store)) =>
            (a.exc = "" /\ a.outcome = "Inserted" /\ a.db.txn = "idle")

\* an offer answered AlreadyExists was followed by one that was Inserted
C15_Witness ==
  \E i \in 1..(Len(log) - 1) :
    /\ log[i].outcome = "AlreadyExists"
    /\ log[i + 1].outcome = "Inserted"
    /\ log[i + 1].id \in Ids(db.store)

\* C16: when a detail is about to be opened and when the crawl has
\* stopped, with or without an exception, the id of every offer appended
\* earlier in the run is committed in the store; and no step that raises
\* takes a committed row away.
C16_ImmediatePersistence ==
  /\ [](pc \in {"open", "finished", "finally", "done"} =>
          \A i \in 1..Len(log) : log[i].id \in Ids(db.store))
  /\ [][(error' # "" /\ run' = run) => db.store \subseteq db'.store]_vars

\* a run ended on the exception of its second offer; the first offer,
\* Inserted in this run, is in the store after the connection was closed
C16_Witness ==
  /\ pc = "done"
  /\ error = "AttributeError"
  /\ opened = <<1, 2>>
  /\ Len(log) = 1
  /\ log[1].outcome = "Inserted"
  /\ log[1].id \in Ids(db.store)

\* C17: the scroll is issued after a non-empty window was gone over, on
\* its last block; whether the block takes the key or is not
\* interactable, the loop goes round to the next query with the cursor,
\* the store and the visits as they were, and no exception.
C17_ScrollFailureRecovered ==
  /\ [](pc = "scroll" => (section # <<>> /\ k = Len(section)))
  /\ [][(pc = "scroll" /\ pc' # pc) =>
          /\ pc' = "query"
          /\ error' = ""
          /\ start_block_n' = start_block_n
          /\ db' = db
          /\ opened' = opened
          /\ log' = log]_vars

\* the loop is at its next query after a scroll that fetched nothing:
\* the cursor is at the end of the rendered list, the source holds more,
\* and the page is not loading
C17_Witness ==
  /\ pc = "query"
  /\ start_block_n > 0
  /\ start_block_n = rendered
  /\ rendered < Len(source)
  /\ ~loading
  /\ error = ""

\* C18: within one run no block has its detail opened twice and none is
\* appended twice, over all windows.
C18_OneAttemptPerItem ==
  /\ \A i, j \in 1..Len(opened) : opened[i] = opened[j] => i = j
  /\ \A i, j \in 1..Len(log) : log[i].block = log[j].block => i = j
  /\ \A i \in 1..Len(log) : log[i].block = opened[i]

\* two offers were visited in two windows: the list was queried again
\* after the first
C18_Witness ==
  /\ opened = <<1, 2>>
  /\ Len(log) = 2
  /\ window_start = 1
  /\ pc = "scroll"

\* C19: when the crawl ends without an exception every offer of the
\* source was visited.
C19_CompleteAtTermination ==
  pc = "finished" => Len(opened) = Len(source)

\* C20: when main() leaves its finally clause the connection is closed, a
\* driver that was started is closed, and main() ends with the exception
\* it entered the clause with (or none).
C20_ReleaseKeepsError ==
  [][(pc = "finally" /\ pc' = "done") =>
       /\ ~connOpen'
       /\ driver' # "open"
       /\ error' = error]_vars
====
